---- MODULE Spec2Model ----
(***************************************************************************)
(* Session registry and tool router of the agent-browser plugin            *)
(* (src/index.ts, the ab_* tools, lines 537-1193).                         *)
(*                                                                         *)
(* The plugin runs on one JavaScript event loop.  Every action below is    *)
(* one synchronous run of code between two suspension points (await):     *)
(* a tool's execute() up to its first await, the code after an await, a    *)
(* timer callback, or a service hook.                                      *)
(***************************************************************************)
EXTENDS Integers, Sequences, FiniteSets, TLC

----------------------------------------------------------------------------
(* Bounds of the model *)

\* number of tool invocations made by the host
MaxCalls == 2
\* number of distinct session names the host uses
NumNames == 4
\* number of times the clock advances by one scan interval
MaxTicks == 2

Calls == 1..MaxCalls
Names == 1..NumNames

----------------------------------------------------------------------------
(* Program constants *)

\* config.maxConcurrent ?? 3
DefaultMaxConcurrent == 3
\* pluginConfig.idleTimeoutMs ?? 300000
DefaultIdleTimeoutMs == 300000
\* setInterval(..., 60000)
ScanIntervalMs == 60000

\* a ?? b on an optional configuration field
Coalesce(cfg, key, default) == IF key \in DOMAIN cfg THEN cfg[key] ELSE default

\* The plugin configurations the host may supply (api.config || {}).
Configs ==
    { [maxConcurrent |-> 1, idleTimeoutMs |-> ScanIntervalMs],
      [maxConcurrent |-> 2],
      << >> }

\* config.r2 with its required fields, without and with publicDomain
R2Bucket == [accountId |-> "acct", bucket |-> "media"]
R2Domain == [accountId |-> "acct", bucket |-> "media", publicDomain |-> "cdn.example"]

\* The configurations under which the recording tools are observed.
ConfigsRec ==
    { [maxConcurrent |-> 2, gif |-> [enabled |-> TRUE], r2 |-> R2Bucket],
      [maxConcurrent |-> 1] }

\* The configurations under which the screenshot, interact and advanced
\* tools are observed; the last one has an r2 section without bucket.
ConfigsTools ==
    { [maxConcurrent |-> 1, r2 |-> R2Domain],
      [maxConcurrent |-> 2],
      [maxConcurrent |-> 1, r2 |-> [accountId |-> "acct"]] }

\* initR2Client(config): null (FALSE) without r2.accountId or r2.bucket,
\* or without R2_ACCESS_KEY_ID and R2_SECRET_ACCESS_KEY in the environment
\* (credentials)
InitR2Client(cfg, credentials) ==
    IF \/ "r2" \notin DOMAIN cfg
       \/ "accountId" \notin DOMAIN cfg.r2
       \/ "bucket" \notin DOMAIN cfg.r2
    THEN FALSE
    ELSE credentials

\* Tools that resolve the session and dispatch one envelope (ab_open,
\* ab_navigate, ab_click, ab_fill, ...), and the close tool.
Tools == {"ab_open", "ab_close"}

\* The recording tools.
RecordTools == {"ab_record_start", "ab_record_stop"}

\* The screenshot tool and the tools that build their envelope from params.
RouterTools == {"ab_screenshot", "ab_interact", "ab_advanced"}

\* What the engine collaborator can answer to a dispatched envelope:
\* a result envelope with success=true, one with success=false, or a
\* rejected promise.
EngineAnswers == {"ok", "failed", "threw"}

----------------------------------------------------------------------------
VARIABLES
    pluginConfig,   \* the configuration object
    s3Client,       \* the storage client of the module (FALSE: null)
    sessions,       \* the Map name -> SessionState, in insertion order
    objs,           \* the SessionState objects, keyed by their browser
    browsers,       \* every BrowserManager constructed so far
    calls,          \* the tool invocations and where each is suspended
    returned,       \* what the step just taken exchanged with the host and
                    \* with the engine
    now,            \* Date.now()
    reaperOn,       \* the setInterval timer of the cleanup service is armed
    stopPc,         \* position of the service's stop hook
    stopPos         \* entries the stop hook's Map iterator has passed

vars == <<pluginConfig, s3Client, sessions, objs, browsers, calls, returned, now,
          reaperOn, stopPc, stopPos>>

----------------------------------------------------------------------------
(* The Map<string, SessionState>: a sequence of entries [name, id] in      *)
(* insertion order; id is the index in browsers of the entry's             *)
(* session.browser and identifies the SessionState object.                 *)

RECURSIVE IndexOf(_, _, _)
IndexOf(s, n, i) ==
    IF i > Len(s) THEN 0
    ELSE IF s[i].name = n THEN i ELSE IndexOf(s, n, i + 1)

\* sessions.has(name)
SessionsHas(s, n) == IndexOf(s, n, 1) # 0

\* sessions.get(name); 0 stands for undefined
SessionsGet(s, n) == IF SessionsHas(s, n) THEN s[IndexOf(s, n, 1)].id ELSE 0

\* sessions.set(name, session): an existing key keeps its position
SessionsSet(s, n, id) ==
    IF SessionsHas(s, n)
    THEN [s EXCEPT ![IndexOf(s, n, 1)] = [name |-> n, id |-> id]]
    ELSE Append(s, [name |-> n, id |-> id])

\* variant of sessions.delete that removes nothing
SessionsDelete_noop(s, n) == s

\* variant of sessions.delete that empties the Map (sessions.clear())
SessionsDelete_clear(s, n) == <<>>

\* sessions.delete(name)
SessionsDelete(s, n) == SelectSeq(s, LAMBDA e : e.name # n)

\* A Map iterator that has passed pos entries, after name n is deleted.
IterAfterDelete(s, n, pos) ==
    IF SessionsHas(s, n) /\ IndexOf(s, n, 1) <= pos THEN pos - 1 ELSE pos

\* sessions.size
SessionsSize(s) == Len(s)

RegisteredNames == { sessions[i].name : i \in 1..Len(sessions) }

----------------------------------------------------------------------------
(* Tool invocations *)

NoError == <<>>

\* new Error(`Max concurrent sessions (${config.maxConcurrent ?? 3}) reached`)
CapacityError(cfg) ==
    <<"Max concurrent sessions", Coalesce(cfg, "maxConcurrent", DefaultMaxConcurrent),
      "reached">>

\* the rejection of browser.launch(), and of executeCommand()
LaunchError == <<"launch failed">>
DispatchError == <<"dispatch threw">>

\* No params read yet, or none that is read again.
NoParams == <<>>

\* A tool invocation: where it is suspended (pc), its tool, its
\* params.session (name), the browser it holds through its local
\* `session`/`browser` variable (0: none), the file path it holds in
\* localPath/finalPath (<<>>: none), the content type it passes to
\* uploadToR2 and the params it reads again after an await.  A completed
\* invocation keeps nothing: its payload or its error goes to the host
\* (returned).
IdleCall ==
    [pc |-> "idle", tool |-> "none", name |-> 0, session |-> 0,
     path |-> <<>>, ctype |-> "none", params |-> NoParams]
DoneCall ==
    [pc |-> "done", tool |-> "none", name |-> 0, session |-> 0,
     path |-> <<>>, ctype |-> "none", params |-> NoParams]

\* What a step exchanges: with the host, the tool and params.session of
\* the call it ran, the other params it read, and the payload (result,
\* data) or the error the call completed with; with the engine, the
\* envelope it passed to executeCommand (sent), the browser it passed it
\* with (to) and the answer that resumed it (engine).
NoData == <<>>
NoDispatch == [action |-> "none"]
NothingReturned ==
    [tool |-> "none", name |-> 0, result |-> "none", error |-> NoError,
     data |-> NoData, params |-> NoParams, sent |-> NoDispatch, to |-> 0,
     engine |-> "none"]

TypeOK ==
    /\ pluginConfig \in Configs \cup ConfigsRec \cup ConfigsTools
    /\ s3Client \in BOOLEAN
    /\ \A i \in 1..Len(sessions) :
          /\ sessions[i].name \in Names
          /\ sessions[i].id \in DOMAIN objs
    /\ \A i, j \in 1..Len(sessions) : sessions[i].name = sessions[j].name => i = j
    /\ DOMAIN objs \subseteq 1..Len(browsers)
    /\ \A c \in Calls :
          /\ calls[c].pc \in {"idle", "launching", "resolved", "dispatching",
                              "closing", "starting", "stopping", "converting",
                              "uploading",
                              "emulating", "capturing", "done"}
          /\ calls[c].session \in 0..Len(browsers)
    /\ returned.tool \in Tools \cup RecordTools \cup RouterTools \cup {"none"}
    /\ now \in Nat
    /\ now % ScanIntervalMs = 0
    /\ reaperOn \in BOOLEAN
    /\ stopPc \in {"running", "draining", "stopped"}
    /\ stopPos \in 0..Len(sessions)

\* new BrowserManager(): close() not called yet, no recording envelope
\* received yet.
NewBrowser == [closeCalls |-> 0, recLog |-> <<>>]

\* The registry after the host has opened sessions 1..k one after the other,
\* each call completed, right after activation.
Opened(k) == [i \in 1..k |-> [name |-> i, id |-> i]]

\* The plugin right after register(api) (k = 0), or after the service was
\* started and sessions were opened up to the cap, at time t0.
InitAt(t0) ==
    /\ pluginConfig \in Configs
    /\ \E credentials \in BOOLEAN : s3Client = InitR2Client(pluginConfig, credentials)
    /\ \E k \in {0, Coalesce(pluginConfig, "maxConcurrent", DefaultMaxConcurrent)} :
          /\ k < NumNames
          /\ sessions = Opened(k)
          /\ objs = [i \in 1..k |->
                        [browser |-> i, lastActivity |-> 0, recording |-> FALSE]]
          /\ browsers = [i \in 1..k |-> NewBrowser]
          /\ reaperOn = (k > 0)
    /\ calls = [c \in Calls |-> IdleCall]
    /\ returned = NothingReturned
    /\ now = t0
    /\ stopPc = "running"
    /\ stopPos = 0

Init == InitAt(0)

\* The names the program holds: the Map's keys and the params.session of
\* the suspended calls.
NamesInUse == RegisteredNames \cup { calls[c].name : c \in Calls }

\* Session names are arbitrary strings and the program keeps no trace of a
\* name it no longer holds: a call names a session in use, or the first
\* name not in use.
CanName(n) ==
    \/ n \in NamesInUse
    \/ n \in Names /\ \A m \in Names \ NamesInUse : n <= m

\* convertToGif is running execSync(ffmpeg ...) in a call: until it ends
\* the event loop runs no other handler and no continuation.
Converting == \E c \in Calls : calls[c].pc = "converting"

\* The host starts the service at activation and then invokes its tool
\* calls one after the other (they may overlap), until it shuts down.
CanInvoke(c, n) ==
    /\ ~Converting
    /\ reaperOn
    /\ stopPc = "running"
    /\ calls[c].pc = "idle"
    /\ IF c = 1 THEN TRUE ELSE calls[c - 1].pc # "idle"
    /\ CanName(n)

\* The tool call resolves with a payload.
Return(c, tool, n, payload) ==
    /\ calls' = [calls EXCEPT ![c] = DoneCall]
    /\ returned' = [NothingReturned EXCEPT !.tool = tool, !.name = n,
                                           !.result = payload]

\* The tool call rejects with an error.
Reject(c, tool, n, err) ==
    /\ calls' = [calls EXCEPT ![c] = DoneCall]
    /\ returned' = [NothingReturned EXCEPT !.tool = tool, !.name = n,
                                           !.error = err]

\* Resumed by the engine's answer a, the tool call resolves with a payload
\* or, when executeCommand threw, rejects.
Answered(c, tool, n, a, payload) ==
    /\ calls' = [calls EXCEPT ![c] = DoneCall]
    /\ returned' = [NothingReturned EXCEPT
                        !.tool = tool, !.name = n, !.engine = a,
                        !.result = IF a = "threw" THEN "none" ELSE payload,
                        !.error = IF a = "threw" THEN DispatchError ELSE NoError]

\* Resumed by the engine's answer a, the tool call goes on.
GoesOn(c, a) ==
    returned' = [NothingReturned EXCEPT !.tool = calls[c].tool,
                                        !.name = calls[c].name, !.engine = a]

\* The step passes the envelope cmd, built from params, and the browser
\* id to executeCommand.
Sends(tool, n, params, cmd, id) ==
    returned' = [NothingReturned EXCEPT !.tool = tool, !.name = n,
                    !.params = params, !.sent = cmd, !.to = id]

\* { id: Date.now().toString(), action, ...fields }: fields spread after
\* id and action replace them
Envelope(action, fields) == fields @@ [id |-> ToString(now), action |-> action]

\* variant of the cap test with > for >=
AtCapacity_offByOne(s, cfg) ==
    SessionsSize(s) > Coalesce(cfg, "maxConcurrent", DefaultMaxConcurrent)

\* sessions.size >= (config.maxConcurrent ?? 3)
AtCapacity(s, cfg) ==
    SessionsSize(s) >= Coalesce(cfg, "maxConcurrent", DefaultMaxConcurrent)

\* variant of the lookup that never finds the session
NeedsCreate_always(s, n) == TRUE

\* variant of the lookup that finds no session in a full registry
NeedsCreate_whenFull(s, n) == SessionsGet(s, n) = 0 \/ AtCapacity(s, pluginConfig)

\* if (!session), with session = sessions.get(sessionName)
NeedsCreate(s, n) == SessionsGet(s, n) = 0

\* variant of the resolve that leaves lastActivity as it is
Touch_never(o, id) == o

\* session.lastActivity = Date.now()
Touch(o, id) == [o EXCEPT ![id].lastActivity = now]

\* The SessionState objects still referenced by the Map or by a local
\* variable of a suspended call; the others are garbage.
Reachable(o, s, cs) ==
    LET live == { s[i].id : i \in 1..Len(s) } \cup { cs[c].session : c \in Calls }
    IN [id \in DOMAIN o \cap live |-> o[id]]

\* getSession on a registered name runs to its end without suspending;
\* execute() is then suspended on `await getSession(...)`.
GetSessionExisting(c, tool, n) ==
    /\ returned' = NothingReturned
    /\ CanInvoke(c, n)
    /\ ~NeedsCreate(sessions, n)
    /\ objs' = Touch(objs, SessionsGet(sessions, n))
    /\ calls' = [calls EXCEPT ![c] = [pc |-> "resolved", tool |-> tool,
                    name |-> n, session |-> SessionsGet(sessions, n),
                    path |-> <<>>, ctype |-> "none", params |-> NoParams]]
    /\ UNCHANGED <<pluginConfig, s3Client, sessions, browsers, now, reaperOn,
                   stopPc, stopPos>>

ResolveExisting(c, n) == GetSessionExisting(c, "ab_open", n)

\* getSession on an unregistered name with the registry at the cap throws.
GetSessionRejected(c, tool, n) ==
    /\ CanInvoke(c, n)
    /\ NeedsCreate(sessions, n)
    /\ AtCapacity(sessions, pluginConfig)
    /\ Reject(c, tool, n, CapacityError(pluginConfig))
    /\ UNCHANGED <<pluginConfig, s3Client, sessions, objs, browsers, now, reaperOn, stopPc, stopPos>>

ResolveRejected(c, n) == GetSessionRejected(c, "ab_open", n)

\* getSession on an unregistered name below the cap constructs a
\* BrowserManager and suspends on browser.launch().
GetSessionLaunch(c, tool, n) ==
    /\ returned' = NothingReturned
    /\ CanInvoke(c, n)
    /\ NeedsCreate(sessions, n)
    /\ ~AtCapacity(sessions, pluginConfig)
    /\ browsers' = Append(browsers, NewBrowser)
    /\ calls' = [calls EXCEPT ![c] = [pc |-> "launching", tool |-> tool,
                    name |-> n, session |-> Len(browsers) + 1, path |-> <<>>, ctype |-> "none", params |-> NoParams]]
    /\ UNCHANGED <<pluginConfig, s3Client, sessions, objs, now, reaperOn, stopPc, stopPos>>

ResolveLaunch(c, n) == GetSessionLaunch(c, "ab_open", n)

\* browser.launch() resolves: the session object is built and registered.
LaunchOk(c) ==
    /\ returned' = NothingReturned
    /\ calls[c].pc = "launching"
    /\ ~Converting
    /\ calls' = [calls EXCEPT ![c].pc = "resolved"]
    /\ LET id == calls[c].session
           session == [browser |-> id, lastActivity |-> now, recording |-> FALSE]
       IN /\ sessions' = SessionsSet(sessions, calls[c].name, id)
          /\ objs' = Reachable(Touch(objs @@ (id :> session), id), sessions', calls')
    /\ UNCHANGED <<pluginConfig, s3Client, browsers, now, reaperOn, stopPc, stopPos>>

\* variant of the failed launch that registers the session all the same
LaunchFail_registers(c) ==
    /\ calls[c].pc = "launching"
    /\ Reject(c, calls[c].tool, calls[c].name, LaunchError)
    /\ sessions' = SessionsSet(sessions, calls[c].name, calls[c].session)
    /\ objs' = Reachable(objs @@ (calls[c].session :>
                    [browser |-> calls[c].session, lastActivity |-> now,
                     recording |-> FALSE]), sessions', calls')
    /\ UNCHANGED <<pluginConfig, s3Client, browsers, now, reaperOn, stopPc, stopPos>>

\* variant of the failed launch that resolves the call with an empty result
LaunchFail_swallowed(c) ==
    /\ calls[c].pc = "launching"
    /\ Return(c, calls[c].tool, calls[c].name, "none")
    /\ UNCHANGED <<pluginConfig, s3Client, sessions, objs, browsers, now, reaperOn, stopPc, stopPos>>

\* browser.launch() rejects: getSession and the tool call reject with it.
LaunchFail(c) ==
    /\ calls[c].pc = "launching"
    /\ ~Converting
    /\ Reject(c, calls[c].tool, calls[c].name, LaunchError)
    /\ UNCHANGED <<pluginConfig, s3Client, sessions, objs, browsers, now, reaperOn, stopPc, stopPos>>

\* execute() resumes after `await getSession(...)` and calls
\* executeCommand(envelope, session.browser).
Dispatch(c) ==
    /\ returned' = NothingReturned
    /\ calls[c].pc = "resolved"
    /\ calls[c].tool = "ab_open"
    /\ calls' = [calls EXCEPT ![c].pc = "dispatching"]
    /\ UNCHANGED <<pluginConfig, s3Client, sessions, objs, browsers, now, reaperOn,
                   stopPc, stopPos>>

\* The engine answers the dispatched envelope; the tool returns the result
\* envelope (whatever its success flag) or rejects with what was thrown.
DispatchReturn(c) ==
    /\ calls[c].pc = "dispatching"
    /\ \E a \in EngineAnswers : Answered(c, calls[c].tool, calls[c].name, a, a)
    /\ objs' = Reachable(objs, sessions, calls')
    /\ UNCHANGED <<pluginConfig, s3Client, sessions, browsers, now, reaperOn, stopPc, stopPos>>

\* browser.close(), directly or through the "close" envelope
InvokeClose(b, id) == [b EXCEPT ![id].closeCalls = @ + 1]

\* variant of ab_close without the `if (!session)` answer
CloseNotFound_closed(c, n) ==
    /\ CanInvoke(c, n)
    /\ SessionsGet(sessions, n) = 0
    /\ Return(c, "ab_close", n, "closed")
    /\ UNCHANGED <<pluginConfig, s3Client, sessions, objs, browsers, now, reaperOn, stopPc, stopPos>>

\* ab_close on a name that sessions.get() does not find
CloseNotFound(c, n) ==
    /\ CanInvoke(c, n)
    /\ SessionsGet(sessions, n) = 0
    /\ Return(c, "ab_close", n, "Session not found")
    /\ UNCHANGED <<pluginConfig, s3Client, sessions, objs, browsers, now, reaperOn, stopPc, stopPos>>

\* ab_close on a registered name dispatches the close envelope and suspends.
CloseDispatch(c, n) ==
    /\ returned' = NothingReturned
    /\ CanInvoke(c, n)
    /\ SessionsGet(sessions, n) # 0
    /\ browsers' = InvokeClose(browsers, SessionsGet(sessions, n))
    /\ calls' = [calls EXCEPT ![c] = [pc |-> "closing", tool |-> "ab_close",
                    name |-> n, session |-> SessionsGet(sessions, n),
                    path |-> <<>>, ctype |-> "none", params |-> NoParams]]
    /\ UNCHANGED <<pluginConfig, s3Client, sessions, objs, now, reaperOn, stopPc, stopPos>>

\* The close envelope is answered: sessions.delete(params.session) and the
\* payload {closed: true}; a rejected dispatch rejects the tool call.
CloseReturn(c) ==
    /\ calls[c].pc = "closing"
    /\ ~Converting
    /\ \E a \in EngineAnswers :
          IF a = "threw"
          THEN /\ Reject(c, "ab_close", calls[c].name, DispatchError)
               /\ UNCHANGED <<sessions, stopPos>>
          ELSE /\ Return(c, "ab_close", calls[c].name, "closed")
               /\ sessions' = SessionsDelete(sessions, calls[c].name)
               /\ stopPos' = IterAfterDelete(sessions, calls[c].name, stopPos)
    /\ objs' = Reachable(objs, sessions', calls')
    /\ UNCHANGED <<pluginConfig, s3Client, browsers, now, reaperOn, stopPc>>

----------------------------------------------------------------------------
(* The recording tools *)

\* params.label of a record-start call: given, or absent
Labels == {"clip", ""}

\* join(tempDir, `${params.session}-${label}.webm`) with
\* label = params.label || `recording-${Date.now()}`
LocalPath(n, label) ==
    IF label # "" THEN <<n, label, 0, "webm">> ELSE <<n, "recording", now, "webm">>

\* finalPath.replace(".webm", ".gif")
GifPath(path) == [path EXCEPT ![4] = "gif"]

\* result.data?.path of the recording_stop result: absent, or the file the
\* engine wrote
EnginePaths == { <<>>, <<0, "engine", 0, "webm">> }

\* pluginConfig.gif?.enabled
GifEnabled(cfg) == "gif" \in DOMAIN cfg /\ cfg.gif.enabled

\* What uploadToR2 does: returns null (no client or no r2 configuration),
\* returns the public URL, or throws (readFileSync, s3Client.send).
UploadAnswers == {"null", "url", "threw"}
UploadError == <<"upload threw">>

\* variant of uploadToR2 that catches what readFileSync and send throw
UploadOutcomes_caught(client, cfg) ==
    IF ~client \/ "r2" \notin DOMAIN cfg THEN {"null"} ELSE {"url", "null"}

\* variant of uploadToR2 without the test of the client
UploadOutcomes_noClientTest(client, cfg) ==
    IF "r2" \notin DOMAIN cfg THEN {"null"} ELSE {"url", "threw"}

\* if (!s3Client || !pluginConfig.r2) return null; otherwise the file is
\* read and sent, which succeeds or throws
UploadOutcomes(client, cfg) ==
    IF ~client \/ "r2" \notin DOMAIN cfg THEN {"null"} ELSE {"url", "threw"}

\* `${r.key}` in a template literal: a missing property reads "undefined"
Interpolated(r, key) == IF key \in DOMAIN r THEN r[key] ELSE "undefined"

\* the public URL of agent-browser/<remoteName>; null is <<>>
PublicUrl(cfg, remoteName) ==
    [host |-> IF "publicDomain" \in DOMAIN cfg.r2
              THEN <<cfg.r2.publicDomain>>
              ELSE <<Interpolated(cfg.r2, "bucket"),
                     Interpolated(cfg.r2, "accountId"), "r2.dev">>,
     key |-> <<"agent-browser", remoteName>>]

\* finalPath?.split("/").pop() || "video.webm"; a file is named by its path
FileName(path) == IF path = <<>> THEN <<"video.webm">> ELSE path

\* The payload of ab_record_stop and ab_screenshot: markdown is an image
\* for a screenshot and for a GIF, a link for a video, null without URL.
MediaPayload(tool, path, ctype, url) ==
    [localPath |-> path,
     remoteUrl |-> url,
     markdown |-> IF url = <<>> THEN <<>>
                  ELSE IF tool = "ab_screenshot" THEN <<"image", path[2], url>>
                  ELSE IF ctype = "image/gif" THEN <<"image", "recording", url>>
                  ELSE <<"link", "Recording", url>>]

\* executeCommand({action: "recording_start" | "recording_stop"}, browser)
\* is called: the engine receives the envelope.
DispatchRecording(b, id, action) == [b EXCEPT ![id].recLog = Append(@, action)]

\* variant of the record-start test that never sees a recording session
AlreadyRecording_never(o) == FALSE

\* if (session.recording) in ab_record_start
AlreadyRecording(o) == o.recording

\* variant of the record-stop test that always sees a recording session
NotRecording_never(o) == FALSE

\* if (!session.recording) in ab_record_stop
NotRecording(o) == ~o.recording

\* ab_record_start resumes after `await getSession(...)`: it answers
\* {error: "Already recording"} or dispatches recording_start with the
\* path it computed and suspends.
RecordStartCheck(c) ==
    /\ calls[c].pc = "resolved"
    /\ calls[c].tool = "ab_record_start"
    /\ ~Converting
    /\ IF AlreadyRecording(objs[calls[c].session])
       THEN /\ Return(c, "ab_record_start", calls[c].name, "Already recording")
            /\ UNCHANGED browsers
       ELSE /\ \E label \in Labels :
                  /\ calls' = [calls EXCEPT
                                  ![c].pc = "starting",
                                  ![c].path = LocalPath(calls[c].name, label)]
                  /\ Sends("ab_record_start", calls[c].name, [label |-> label],
                           Envelope("recording_start",
                                    [path |-> LocalPath(calls[c].name, label)]),
                           calls[c].session)
            /\ browsers' = DispatchRecording(browsers, calls[c].session,
                                             "recording_start")
    /\ objs' = Reachable(objs, sessions, calls')
    /\ UNCHANGED <<pluginConfig, s3Client, sessions, now, reaperOn, stopPc, stopPos>>

\* variant of the start that sets the flag and stores no path
StartRecording_noPath(o, path) == [o EXCEPT !.recording = TRUE]

\* session.recording = true; session.recordingPath = localPath
StartRecording(o, path) ==
    [browser |-> o.browser, lastActivity |-> o.lastActivity,
     recording |-> TRUE, recordingPath |-> path]

\* variant of the answer in which a rejected dispatch marks the session too
RecordStartReturn_marksOnThrow(c) ==
    /\ calls[c].pc = "starting"
    /\ ~Converting
    /\ \E a \in EngineAnswers :
          /\ Answered(c, "ab_record_start", calls[c].name, a, "recording")
          /\ objs' = Reachable(
                [objs EXCEPT ![calls[c].session] =
                    StartRecording(@, calls[c].path)], sessions, calls')
    /\ UNCHANGED <<pluginConfig, s3Client, sessions, browsers, now, reaperOn, stopPc, stopPos>>

\* The engine answers recording_start: whatever the result envelope says,
\* the session becomes Recording with the dispatched path; a rejected
\* dispatch rejects the tool call and changes nothing.
RecordStartReturn(c) ==
    /\ calls[c].pc = "starting"
    /\ ~Converting
    /\ \E a \in EngineAnswers :
          /\ Answered(c, "ab_record_start", calls[c].name, a, "recording")
          /\ IF a = "threw"
             THEN objs' = Reachable(objs, sessions, calls')
             ELSE objs' = Reachable(
                      [objs EXCEPT ![calls[c].session] =
                          StartRecording(@, calls[c].path)], sessions, calls')
    /\ UNCHANGED <<pluginConfig, s3Client, sessions, browsers, now, reaperOn, stopPc, stopPos>>

\* ab_record_stop resumes after `await getSession(...)`: it answers
\* {error: "Not recording"} or dispatches recording_stop and suspends.
RecordStopCheck(c) ==
    /\ calls[c].pc = "resolved"
    /\ calls[c].tool = "ab_record_stop"
    /\ ~Converting
    /\ IF NotRecording(objs[calls[c].session])
       THEN /\ Return(c, "ab_record_stop", calls[c].name, "Not recording")
            /\ UNCHANGED browsers
       ELSE /\ Sends("ab_record_stop", calls[c].name, NoParams,
                     Envelope("recording_stop", <<>>), calls[c].session)
            /\ calls' = [calls EXCEPT ![c].pc = "stopping"]
            /\ browsers' = DispatchRecording(browsers, calls[c].session,
                                             "recording_stop")
    /\ objs' = Reachable(objs, sessions, calls')
    /\ UNCHANGED <<pluginConfig, s3Client, sessions, now, reaperOn, stopPc, stopPos>>

\* variant of the stop that leaves the recording flag set
StopRecording_keepsFlag(o) == o

\* variant of the stop that toggles the recording flag
StopRecording_togglesFlag(o) == [o EXCEPT !.recording = ~@]

\* session.recording = false (session.recordingPath is left as it is)
StopRecording(o) == [o EXCEPT !.recording = FALSE]

\* result.data?.path || session.recordingPath
FinalPath(enginePath, o) ==
    IF enginePath # <<>> THEN enginePath
    ELSE IF "recordingPath" \in DOMAIN o THEN o.recordingPath ELSE <<>>

\* variant of the conversion whose failure is taken for a success
GifConverted_always(cfg, finalPath, gifOk) == GifEnabled(cfg) /\ finalPath # <<>>

\* if (pluginConfig.gif?.enabled && finalPath) { try { convertToGif(...);
\* ... } catch {} }: the file was converted (gifOk: ffmpeg succeeded)
GifConverted(cfg, finalPath, gifOk) ==
    GifEnabled(cfg) /\ finalPath # <<>> /\ gifOk

\* if (pluginConfig.gif?.enabled && finalPath)
WantsGif(cfg, finalPath) == GifEnabled(cfg) /\ finalPath # <<>>

\* The engine answers recording_stop: the session becomes Idle and, when
\* a GIF is wanted, convertToGif starts (execSync, which returns when
\* ffmpeg has ended); otherwise uploadToR2 is called and awaited.  A
\* rejected dispatch rejects the tool call and changes nothing.
RecordStopReturn(c) ==
    /\ calls[c].pc = "stopping"
    /\ ~Converting
    /\ \E a \in EngineAnswers :
          IF a = "threw"
          THEN /\ Answered(c, "ab_record_stop", calls[c].name, a, "none")
               /\ objs' = Reachable(objs, sessions, calls')
          ELSE /\ GoesOn(c, a)
               /\ \E enginePath \in EnginePaths :
                     LET finalPath == FinalPath(enginePath, objs[calls[c].session])
                     IN calls' = [calls EXCEPT
                           ![c].pc = IF WantsGif(pluginConfig, finalPath)
                                     THEN "converting" ELSE "uploading",
                           ![c].session = 0,    \* `session` is not used again
                           ![c].path = finalPath,
                           ![c].ctype = "video/webm"]
               /\ objs' = Reachable(
                      [objs EXCEPT ![calls[c].session] = StopRecording(@)],
                      sessions, calls')
    /\ UNCHANGED <<pluginConfig, s3Client, sessions, browsers, now, reaperOn, stopPc, stopPos>>

\* ffmpeg ends and execSync returns or throws (caught): the GIF or the
\* video is passed to uploadToR2, which is called and awaited.
ConvertReturn(c) ==
    /\ calls[c].pc = "converting"
    /\ returned' = [NothingReturned EXCEPT !.tool = calls[c].tool,
                                           !.name = calls[c].name]
    /\ \E gifOk \in BOOLEAN :
          LET converted == GifConverted(pluginConfig, calls[c].path, gifOk)
          IN calls' = [calls EXCEPT
                ![c].pc = "uploading",
                ![c].path = IF converted THEN GifPath(@) ELSE @,
                ![c].ctype = IF converted THEN "image/gif" ELSE "video/webm"]
    /\ UNCHANGED <<pluginConfig, s3Client, sessions, objs, browsers, now, reaperOn,
                   stopPc, stopPos>>

\* uploadToR2 settles: the tool returns the local path with the remote URL
\* or null, or rejects with what the upload threw.
UploadReturn(c) ==
    /\ calls[c].pc = "uploading"
    /\ ~Converting
    /\ calls' = [calls EXCEPT ![c] = DoneCall]
    /\ \E u \in UploadOutcomes(s3Client, pluginConfig) :
          returned' =
             IF u = "threw"
             THEN [NothingReturned EXCEPT !.tool = calls[c].tool,
                      !.name = calls[c].name, !.error = UploadError]
             ELSE [NothingReturned EXCEPT !.tool = calls[c].tool,
                      !.name = calls[c].name,
                      !.result = IF calls[c].tool = "ab_record_stop"
                                 THEN "stopped" ELSE "saved",
                      !.data = MediaPayload(calls[c].tool, calls[c].path,
                                  calls[c].ctype,
                                  IF u = "null" THEN <<>>
                                  ELSE PublicUrl(pluginConfig,
                                                 FileName(calls[c].path)))]
    /\ UNCHANGED <<pluginConfig, s3Client, sessions, objs, browsers, now, reaperOn, stopPc, stopPos>>

----------------------------------------------------------------------------
(* The screenshot, interact and advanced tools *)

\* The falsy value of each optional parameter's declared type (string or
\* number) that `if (x)` and `x || d` treat like an absent parameter.
Falsy == [label |-> "", device |-> "", selector |-> "", value |-> "",
          amount |-> 0]

\* p[key] is present and truthy
Given(p, key) == key \in DOMAIN p /\ p[key] # Falsy[key]

\* a || b on an optional parameter
OrElse(p, key, default) == IF Given(p, key) THEN p[key] ELSE default

\* The params of ab_screenshot the host uses (session apart).
ScreenshotParams ==
    { [label |-> ""],
      [device |-> "iPhone 14", label |-> "home", fullPage |-> TRUE],
      [device |-> "", label |-> "home", fullPage |-> FALSE] }

\* join(tempDir, `${params.session}-${label}.png`) with
\* label = params.label || `screenshot-${Date.now()}`
ScreenshotPath(n, p) ==
    IF Given(p, "label") THEN <<n, p.label, 0, "png">>
    ELSE <<n, "screenshot", now, "png">>

\* { id, action: "screenshot", path: localPath,
\*   fullPage: params.fullPage ?? false }
ScreenshotCmd(n, p) ==
    Envelope("screenshot",
             [path |-> ScreenshotPath(n, p),
              fullPage |-> IF "fullPage" \in DOMAIN p THEN p.fullPage ELSE FALSE])

\* ab_screenshot calls executeCommand with the screenshot envelope and
\* suspends; a is the engine answer that resumed it ("none": it resumes
\* after getSession).
Capture(c, p, a) ==
    /\ returned' = [NothingReturned EXCEPT
                        !.tool = "ab_screenshot", !.name = calls[c].name,
                        !.params = p, !.engine = a,
                        !.sent = ScreenshotCmd(calls[c].name, p),
                        !.to = calls[c].session]
    /\ calls' = [calls EXCEPT ![c].pc = "capturing",
                              ![c].params = NoParams,   \* not read again
                              ![c].path = ScreenshotPath(calls[c].name, p)]

\* variant of the device test that never emulates a device
WantsDevice_never(p) == FALSE

\* if (params.device)
WantsDevice(p) == Given(p, "device")

\* ab_screenshot resumes after `await getSession(...)`: with a device it
\* dispatches the device envelope and suspends, without it dispatches the
\* screenshot envelope and suspends.
ScreenshotResume(c) ==
    /\ calls[c].pc = "resolved"
    /\ calls[c].tool = "ab_screenshot"
    /\ \E p \in ScreenshotParams :
          IF WantsDevice(p)
          THEN /\ Sends("ab_screenshot", calls[c].name, p,
                        Envelope("device", [device |-> p.device]),
                        calls[c].session)
               /\ calls' = [calls EXCEPT ![c].pc = "emulating",
                                         ![c].params = p]
          ELSE Capture(c, p, "none")
    /\ UNCHANGED <<pluginConfig, s3Client, sessions, objs, browsers, now,
                   reaperOn, stopPc, stopPos>>

\* The engine answers the device envelope: whatever the result says, the
\* screenshot envelope is dispatched; a rejected dispatch rejects the call.
ScreenshotDeviceReturn(c) ==
    /\ calls[c].pc = "emulating"
    /\ \E a \in EngineAnswers :
          IF a = "threw"
          THEN Answered(c, "ab_screenshot", calls[c].name, a, "none")
          ELSE Capture(c, calls[c].params, a)
    /\ objs' = Reachable(objs, sessions, calls')
    /\ UNCHANGED <<pluginConfig, s3Client, sessions, browsers, now, reaperOn,
                   stopPc, stopPos>>

\* The engine answers the screenshot envelope: whatever the result says,
\* uploadToR2(localPath, filename, "image/png") is called and awaited; a
\* rejected dispatch rejects the call.
ScreenshotCaptureReturn(c) ==
    /\ calls[c].pc = "capturing"
    /\ \E a \in EngineAnswers :
          IF a = "threw"
          THEN Answered(c, "ab_screenshot", calls[c].name, a, "none")
          ELSE /\ GoesOn(c, a)
               /\ calls' = [calls EXCEPT ![c].pc = "uploading",
                               ![c].session = 0,    \* `session` is not used again
                               ![c].ctype = "image/png"]
    /\ objs' = Reachable(objs, sessions, calls')
    /\ UNCHANGED <<pluginConfig, s3Client, sessions, browsers, now, reaperOn,
                   stopPc, stopPos>>

\* An optional parameter: absent, or present with one of the values
Optional(key, values) == { <<>> } \cup { key :> v : v \in values }

\* The enum of params.action of ab_interact
InteractActions ==
    { "hover", "focus", "drag", "scroll", "type", "press", "select", "check",
      "uncheck", "dblclick" }

\* The params of ab_interact (session apart): the required action, and
\* selector, value and amount, each absent, falsy or truthy.
InteractInputs ==
    { [action |-> a] @@ s @@ v @@ m :
         a \in InteractActions,
         s \in Optional("selector", {"", "@e1"}),
         v \in Optional("value", {"", "up"}),
         m \in Optional("amount", {0, 120}) }

\* One of them
InteractParams == { [action |-> "scroll", value |-> "up", amount |-> 120] }

\* One `if (params.action === a) cmd[field] = params.value`; a value that
\* is undefined leaves the field undefined.
ValueAs(p, a, field) ==
    IF p.action = a /\ "value" \in DOMAIN p THEN field :> p.value ELSE <<>>

\* variant of the scroll translation that keeps a given amount of 0
ScrollFields_nullish(p) ==
    IF p.action = "scroll"
    THEN [direction |-> OrElse(p, "value", "down"),
          amount |-> IF "amount" \in DOMAIN p THEN p.amount ELSE 300]
    ELSE <<>>

\* cmd.direction = params.value || "down"; cmd.amount = params.amount || 300
ScrollFields(p) ==
    IF p.action = "scroll"
    THEN [direction |-> OrElse(p, "value", "down"),
          amount |-> OrElse(p, "amount", 300)]
    ELSE <<>>

\* the envelope ab_interact builds from its params
InteractCmd(p) ==
    Envelope(p.action,
             (IF Given(p, "selector") THEN [selector |-> p.selector] ELSE <<>>)
             @@ ValueAs(p, "type", "text") @@ ValueAs(p, "press", "key")
             @@ ValueAs(p, "select", "value") @@ ValueAs(p, "drag", "target")
             @@ ScrollFields(p))

\* ab_interact resumes after `await getSession(...)`, builds its envelope
\* and dispatches it.
InteractDispatch(c, p) ==
    /\ calls[c].pc = "resolved"
    /\ calls[c].tool = "ab_interact"
    /\ Sends("ab_interact", calls[c].name, p, InteractCmd(p), calls[c].session)
    /\ calls' = [calls EXCEPT ![c].pc = "dispatching"]
    /\ UNCHANGED <<pluginConfig, s3Client, sessions, objs, browsers, now,
                   reaperOn, stopPc, stopPos>>

\* The params of ab_advanced with an action (session apart): the inner
\* params object is absent, empty, or holds some of the keys selector,
\* action and id.
AdvancedInputs ==
    { [action |-> a] @@ o :
         a \in {"wait", "evaluate", "cookies_get"},
         o \in {<<>>} \cup
               { "params" :> (s @@ t @@ i) :
                    s \in Optional("selector", {"#loading"}),
                    t \in Optional("action", {"close"}),
                    i \in Optional("id", {"7"}) } }

\* One of them
AdvancedParams == { [action |-> "wait", params |-> [selector |-> "#loading"]] }

\* variant of the envelope in which id and action come after the params
AdvancedCmd_tagLast(p) ==
    [id |-> ToString(now), action |-> p.action]
       @@ (IF "params" \in DOMAIN p THEN p.params ELSE <<>>)

\* { id: Date.now().toString(), action: params.action,
\*   ...(params.params || {}) }
AdvancedCmd(p) ==
    Envelope(p.action, IF "params" \in DOMAIN p THEN p.params ELSE <<>>)

\* variant of the catalog answer that registers a session for an
\* unknown name first
AdvancedCatalog_creates(c, n) ==
    /\ CanInvoke(c, n)
    /\ Return(c, "ab_advanced", n, "catalog")
    /\ IF NeedsCreate(sessions, n)
       THEN LET id == Len(browsers) + 1
                session == [browser |-> id, lastActivity |-> now, recording |-> FALSE]
            IN /\ browsers' = Append(browsers, NewBrowser)
               /\ sessions' = SessionsSet(sessions, n, id)
               /\ objs' = objs @@ (id :> session)
       ELSE UNCHANGED <<sessions, objs, browsers>>
    /\ UNCHANGED <<pluginConfig, s3Client, now, reaperOn, stopPc, stopPos>>

\* ab_advanced without params.action returns the catalog of actions.
AdvancedCatalog(c, n) ==
    /\ CanInvoke(c, n)
    /\ Return(c, "ab_advanced", n, "catalog")
    /\ UNCHANGED <<pluginConfig, s3Client, sessions, objs, browsers, now,
                   reaperOn, stopPc, stopPos>>

\* ab_advanced with an action resumes after `await getSession(...)`,
\* builds its envelope and dispatches it.
AdvancedDispatch(c, p) ==
    /\ calls[c].pc = "resolved"
    /\ calls[c].tool = "ab_advanced"
    /\ Sends("ab_advanced", calls[c].name, p, AdvancedCmd(p), calls[c].session)
    /\ calls' = [calls EXCEPT ![c].pc = "dispatching"]
    /\ UNCHANGED <<pluginConfig, s3Client, sessions, objs, browsers, now,
                   reaperOn, stopPc, stopPos>>

----------------------------------------------------------------------------
(* The cleanup service and the clock *)

\* A continuation is queued behind `await getSession(...)`, or behind an
\* uploadToR2 that returned null at once: it runs before any timer
\* callback and before the clock moves by a scan interval.
MicrotaskPending ==
    \E c \in Calls :
       \/ calls[c].pc = "resolved"
       \/ calls[c].pc = "uploading" /\ UploadOutcomes(s3Client, pluginConfig) = {"null"}

\* The clock advances by one scan interval, up to the horizon of the model.
TickUntil(horizon) ==
    /\ returned' = NothingReturned
    /\ now < horizon
    /\ ~MicrotaskPending
    /\ now' = now + ScanIntervalMs
    /\ UNCHANGED <<pluginConfig, s3Client, sessions, objs, browsers, calls, reaperOn,
                   stopPc, stopPos>>

Tick == TickUntil(MaxTicks * ScanIntervalMs)

\* start: () => { setInterval(..., 60000) }
ServiceStart ==
    /\ returned' = NothingReturned
    /\ ~reaperOn
    /\ reaperOn' = TRUE
    /\ UNCHANGED <<pluginConfig, s3Client, sessions, objs, browsers, calls, now,
                   stopPc, stopPos>>

\* variant of the idle test with >= for >
IsIdle_atTimeout(o, cfg, t) ==
    t - o.lastActivity >= Coalesce(cfg, "idleTimeoutMs", DefaultIdleTimeoutMs)

\* variant of the idle test that waits one more scan interval
IsIdle_oneScanLate(o, cfg, t) ==
    t - o.lastActivity >
       Coalesce(cfg, "idleTimeoutMs", DefaultIdleTimeoutMs) + ScanIntervalMs

\* now - session.lastActivity > timeout
IsIdle(o, cfg, t) ==
    t - o.lastActivity > Coalesce(cfg, "idleTimeoutMs", DefaultIdleTimeoutMs)

\* indexes of the entries one run of the interval callback closes and deletes
IdleEntries ==
    { i \in 1..Len(sessions) : IsIdle(objs[sessions[i].id], pluginConfig, now) }

\* The interval callback: close (not awaited) and delete every idle entry.
ReaperTick ==
    /\ returned' = NothingReturned
    /\ reaperOn
    /\ ~MicrotaskPending
    /\ browsers' = [id \in 1..Len(browsers) |->
                       IF \E i \in IdleEntries : sessions[i].id = id
                       THEN [browsers[id] EXCEPT !.closeCalls = @ + 1]
                       ELSE browsers[id]]
    /\ sessions' = SelectSeq(sessions,
                       LAMBDA e : ~IsIdle(objs[e.id], pluginConfig, now))
    /\ stopPos' = stopPos - Cardinality({ i \in IdleEntries : i <= stopPos })
    /\ objs' = Reachable(objs, sessions', calls)
    /\ UNCHANGED <<pluginConfig, s3Client, calls, now, reaperOn, stopPc>>

\* One turn of the stop hook's `for (... of sessions)`: the next entry's
\* browser.close() is called and awaited, or the loop ends and
\* sessions.clear() runs.
StopLoop(pos) ==
    IF pos < Len(sessions)
    THEN /\ browsers' = InvokeClose(browsers, sessions[pos + 1].id)
         /\ stopPos' = pos + 1
         /\ stopPc' = "draining"
         /\ UNCHANGED <<sessions, objs>>
    ELSE /\ sessions' = <<>>
         /\ objs' = Reachable(objs, <<>>, calls)
         /\ stopPos' = 0
         /\ stopPc' = "stopped"
         /\ UNCHANGED browsers

\* stop: async () => { ... } is called by the host, once, on a started service
StopInvoke ==
    /\ returned' = NothingReturned
    /\ reaperOn
    /\ stopPc = "running"
    /\ StopLoop(0)
    /\ UNCHANGED <<pluginConfig, s3Client, calls, now, reaperOn>>

\* `await session.browser.close().catch(() => {})` settles
StopResume ==
    /\ returned' = NothingReturned
    /\ stopPc = "draining"
    /\ StopLoop(stopPos)
    /\ UNCHANGED <<pluginConfig, s3Client, calls, now, reaperOn>>

----------------------------------------------------------------------------
Next ==
    \/ \E c \in Calls, n \in Names : ResolveExisting(c, n)
    \/ \E c \in Calls, n \in Names : ResolveRejected(c, n)
    \/ \E c \in Calls, n \in Names : ResolveLaunch(c, n)
    \/ \E c \in Calls : LaunchOk(c)
    \/ \E c \in Calls : LaunchFail(c)
    \/ \E c \in Calls : Dispatch(c)
    \/ \E c \in Calls : DispatchReturn(c)
    \/ \E c \in Calls, n \in Names : CloseNotFound(c, n)
    \/ \E c \in Calls, n \in Names : CloseDispatch(c, n)
    \/ \E c \in Calls : CloseReturn(c)
    \/ Tick
    \/ ServiceStart
    \/ ReaperTick
    \/ StopInvoke
    \/ StopResume

Spec == Init /\ [][Next]_vars

----------------------------------------------------------------------------
(* The plugin observed around the idle timeout: the service was started,   *)
(* sessions were opened at time 0 and left alone until one scan interval   *)
(* before the timeout.                                                     *)

\* the last reaper run at which a session untouched since 0 is not yet idle
WatchStart(cfg) ==
    Coalesce(cfg, "idleTimeoutMs", DefaultIdleTimeoutMs) - ScanIntervalMs

InitIdle ==
    /\ \E t0 \in { WatchStart(cfg) : cfg \in Configs } : InitAt(t0)
    /\ now = WatchStart(pluginConfig)
    /\ sessions # <<>>

TickIdle == TickUntil(WatchStart(pluginConfig) + MaxTicks * ScanIntervalMs)

NextIdle ==
    \/ \E c \in Calls, n \in Names : ResolveExisting(c, n)
    \/ \E c \in Calls, n \in Names : ResolveRejected(c, n)
    \/ \E c \in Calls, n \in Names : ResolveLaunch(c, n)
    \/ \E c \in Calls : LaunchOk(c)
    \/ \E c \in Calls : LaunchFail(c)
    \/ \E c \in Calls : Dispatch(c)
    \/ \E c \in Calls : DispatchReturn(c)
    \/ \E c \in Calls, n \in Names : CloseNotFound(c, n)
    \/ \E c \in Calls, n \in Names : CloseDispatch(c, n)
    \/ \E c \in Calls : CloseReturn(c)
    \/ TickIdle
    \/ ReaperTick
    \/ StopInvoke
    \/ StopResume

SpecIdle == InitIdle /\ [][NextIdle]_vars

----------------------------------------------------------------------------
(* The recording tools and the close tool, with the service started and   *)
(* not stopped, within one scan interval (no run of the reaper).           *)

\* The session object of a session that is recording to the given path.
RecordingSession(id, path) ==
    StartRecording([browser |-> id, lastActivity |-> 0, recording |-> FALSE], path)

\* The plugin with the service started and with no session, or with the
\* sessions opened up to the cap, the first of them idle or recording.
InitRec ==
    /\ pluginConfig \in ConfigsRec
    /\ \E credentials \in BOOLEAN : s3Client = InitR2Client(pluginConfig, credentials)
    /\ \E k \in {0, Coalesce(pluginConfig, "maxConcurrent", DefaultMaxConcurrent)},
          rec \in BOOLEAN :
          /\ k < NumNames
          /\ rec => k > 0
          /\ sessions = Opened(k)
          /\ objs = [i \in 1..k |->
                        IF rec /\ i = 1
                        THEN RecordingSession(i, <<i, "clip", 0, "webm">>)
                        ELSE [browser |-> i, lastActivity |-> 0, recording |-> FALSE]]
          /\ browsers = [i \in 1..k |->
                            IF rec /\ i = 1
                            THEN DispatchRecording(<<NewBrowser>>, 1, "recording_start")[1]
                            ELSE NewBrowser]
    /\ reaperOn = TRUE
    /\ calls = [c \in Calls |-> IdleCall]
    /\ returned = NothingReturned
    /\ now = 0
    /\ stopPc = "running"
    /\ stopPos = 0

NextRec ==
    \/ \E c \in Calls, n \in Names, t \in RecordTools : GetSessionExisting(c, t, n)
    \/ \E c \in Calls, n \in Names, t \in RecordTools : GetSessionRejected(c, t, n)
    \/ \E c \in Calls, n \in Names, t \in RecordTools : GetSessionLaunch(c, t, n)
    \/ \E c \in Calls : LaunchOk(c)
    \/ \E c \in Calls : LaunchFail(c)
    \/ \E c \in Calls : RecordStartCheck(c)
    \/ \E c \in Calls : RecordStartReturn(c)
    \/ \E c \in Calls : RecordStopCheck(c)
    \/ \E c \in Calls : RecordStopReturn(c)
    \/ \E c \in Calls : ConvertReturn(c)
    \/ \E c \in Calls : UploadReturn(c)
    \/ \E c \in Calls, n \in Names : CloseNotFound(c, n)
    \/ \E c \in Calls, n \in Names : CloseDispatch(c, n)
    \/ \E c \in Calls : CloseReturn(c)

SpecRec == InitRec /\ [][NextRec]_vars

----------------------------------------------------------------------------
(* The plugin observed around the idle timeout with the interval timer     *)
(* firing every scan interval: one step is the clock reaching the next     *)
(* multiple of the scan interval and the interval callback running then.   *)

\* where the clock of the observation stops
Horizon(cfg) == WatchStart(cfg) + MaxTicks * ScanIntervalMs

\* setInterval(callback, 60000) fires: at the new time the callback closes
\* (not awaited) and deletes every idle entry.
IntervalFires ==
    LET t == now + ScanIntervalMs
        idle == { i \in 1..Len(sessions) :
                     IsIdle(objs[sessions[i].id], pluginConfig, t) }
    IN /\ returned' = NothingReturned
       /\ reaperOn
       /\ ~MicrotaskPending
       /\ now < Horizon(pluginConfig)
       /\ now' = t
       /\ browsers' = [id \in 1..Len(browsers) |->
                          IF \E i \in idle : sessions[i].id = id
                          THEN [browsers[id] EXCEPT !.closeCalls = @ + 1]
                          ELSE browsers[id]]
       /\ sessions' = SelectSeq(sessions,
                          LAMBDA e : ~IsIdle(objs[e.id], pluginConfig, t))
       /\ stopPos' = stopPos - Cardinality({ i \in idle : i <= stopPos })
       /\ objs' = Reachable(objs, sessions', calls)
       /\ UNCHANGED <<pluginConfig, s3Client, calls, reaperOn, stopPc>>

NextLive ==
    \/ \E c \in Calls, n \in Names : ResolveExisting(c, n)
    \/ \E c \in Calls, n \in Names : ResolveRejected(c, n)
    \/ \E c \in Calls, n \in Names : ResolveLaunch(c, n)
    \/ \E c \in Calls : LaunchOk(c)
    \/ \E c \in Calls : LaunchFail(c)
    \/ \E c \in Calls : Dispatch(c)
    \/ \E c \in Calls : DispatchReturn(c)
    \/ IntervalFires

\* The event loop runs a queued continuation, and the timer fires when no
\* continuation is queued.
SpecLive ==
    /\ InitIdle
    /\ [][NextLive]_vars
    /\ WF_vars(\E c \in Calls : Dispatch(c))
    /\ WF_vars(IntervalFires)

----------------------------------------------------------------------------
(* The screenshot, interact and advanced tools, with the service started   *)
(* and not stopped, within one scan interval (no run of the reaper).       *)

\* The plugin after the service was started, with no session yet.
InitTools ==
    /\ pluginConfig \in ConfigsTools
    /\ \E credentials \in BOOLEAN : s3Client = InitR2Client(pluginConfig, credentials)
    /\ sessions = <<>>
    /\ objs = <<>>
    /\ browsers = <<>>
    /\ reaperOn = TRUE
    /\ calls = [c \in Calls |-> IdleCall]
    /\ returned = NothingReturned
    /\ now = 0
    /\ stopPc = "running"
    /\ stopPos = 0

NextTools ==
    \/ \E c \in Calls, n \in Names, t \in RouterTools : GetSessionExisting(c, t, n)
    \/ \E c \in Calls, n \in Names, t \in RouterTools : GetSessionRejected(c, t, n)
    \/ \E c \in Calls, n \in Names, t \in RouterTools : GetSessionLaunch(c, t, n)
    \/ \E c \in Calls : LaunchOk(c)
    \/ \E c \in Calls : LaunchFail(c)
    \/ \E c \in Calls : ScreenshotResume(c)
    \/ \E c \in Calls : ScreenshotDeviceReturn(c)
    \/ \E c \in Calls : ScreenshotCaptureReturn(c)
    \/ \E c \in Calls : UploadReturn(c)
    \/ \E c \in Calls, p \in InteractParams : InteractDispatch(c, p)
    \/ \E c \in Calls, n \in Names : AdvancedCatalog(c, n)
    \/ \E c \in Calls, p \in AdvancedParams : AdvancedDispatch(c, p)
    \/ \E c \in Calls : DispatchReturn(c)

SpecTools == InitTools /\ [][NextTools]_vars

----------------------------------------------------------------------------
(* The envelopes of ab_interact and ab_advanced for every params object,   *)
(* on one open session.                                                    *)

\* The plugin after the service was started and one session was opened.
InitCmd ==
    /\ pluginConfig = [maxConcurrent |-> 2]
    /\ s3Client = InitR2Client(pluginConfig, FALSE)
    /\ sessions = Opened(1)
    /\ objs = [i \in 1..1 |->
                  [browser |-> i, lastActivity |-> 0, recording |-> FALSE]]
    /\ browsers = [i \in 1..1 |-> NewBrowser]
    /\ reaperOn = TRUE
    /\ calls = [c \in Calls |-> IdleCall]
    /\ returned = NothingReturned
    /\ now = 0
    /\ stopPc = "running"
    /\ stopPos = 0

NextCmd ==
    \/ \E c \in Calls, n \in Names, t \in {"ab_interact", "ab_advanced"} :
          GetSessionExisting(c, t, n)
    \/ \E c \in Calls, p \in InteractInputs : InteractDispatch(c, p)
    \/ \E c \in Calls, p \in AdvancedInputs : AdvancedDispatch(c, p)
    \/ \E c \in Calls : DispatchReturn(c)

SpecCmd == InitCmd /\ [][NextCmd]_vars

----------------------------------------------------------------------------
(* Vocabulary of the properties *)

\* the cap the documentation gives: maxConcurrent, 3 when not configured
ConfiguredCap ==
    IF "maxConcurrent" \in DOMAIN pluginConfig THEN pluginConfig.maxConcurrent ELSE 3

\* This step is the host invoking call c with the given tool and session
\* name: the call either suspends or completes within the step.
Invoked(c, tool, n) ==
    /\ calls[c].pc = "idle"
    /\ \/ /\ calls'[c].pc \notin {"idle", "done"}
          /\ calls'[c].tool = tool
          /\ calls'[c].name = n
       \/ /\ calls'[c].pc = "done"
          /\ returned'.tool = tool
          /\ returned'.name = n

\* This step completes call c, suspended on its close envelope, with the
\* payload {closed: true}.
ClosedBy(c) ==
    /\ calls[c].pc = "closing"
    /\ calls'[c].pc = "done"
    /\ returned'.result = "closed"

----------------------------------------------------------------------------
(* C1..C10: admission, reuse and close *)

\* C1: in every reachable state the registry holds at most maxConcurrent
\* sessions, whatever the interleaving of concurrent creations.
C1_RegistryWithinCap == Len(sessions) <= ConfiguredCap

\* C2: two concurrent resolves of the same unregistered name never both
\* construct an engine handle (never two launches in flight for one name).
C2_OneLaunchPerNewName ==
    \A c, d \in Calls :
        (c # d /\ calls[c].pc = "launching" /\ calls[d].pc = "launching")
            => calls[c].name # calls[d].name

\* C3: with the registry at maxConcurrent (3 by default), a tool call that
\* resolves an unregistered name is rejected with 'Max concurrent sessions
\* (N) reached', launches no engine and leaves the registry unchanged.
C3_CapacityRejects ==
    [][\A c \in Calls, n \in Names :
          (Invoked(c, "ab_open", n) /\ n \notin RegisteredNames
             /\ Len(sessions) >= ConfiguredCap)
          => /\ calls'[c].pc = "done"
             /\ returned'.result = "none"
             /\ returned'.error = <<"Max concurrent sessions", ConfiguredCap, "reached">>
             /\ browsers' = browsers
             /\ sessions' = sessions
             /\ objs' = objs]_vars

\* C3 witness: under the default configuration, with three sessions
\* registered, a call was rejected with 'Max concurrent sessions (3) reached'.
C3_Witness ==
    /\ DOMAIN pluginConfig = {}
    /\ Len(sessions) = 3
    /\ returned.tool = "ab_open"
    /\ returned.name \notin RegisteredNames
    /\ Len(returned.error) = 3
    /\ returned.error[2] = 3

\* C4: resolving a registered name returns the registered session and
\* launches nothing; an engine is launched only by a call that resolves an
\* unregistered name, however many operations are routed through a session.
C4_ReuseNeverLaunches ==
    [][/\ \A c \in Calls, n \in Names :
             (Invoked(c, "ab_open", n) /\ n \in RegisteredNames)
             => /\ browsers' = browsers
                /\ sessions' = sessions
                /\ calls'[c].pc = "resolved"
                /\ \E i \in 1..Len(sessions) :
                      sessions[i].name = n /\ calls'[c].session = sessions[i].id
       /\ Len(browsers') # Len(browsers)
             => \E c \in Calls, n \in Names :
                   Invoked(c, "ab_open", n) /\ n \notin RegisteredNames]_vars

\* C4 witness: two operations were routed through one session, the second
\* still being dispatched, and one engine was launched in all.
C4_Witness ==
    /\ Len(browsers) = 1
    /\ sessions = <<[name |-> 1, id |-> 1]>>
    /\ calls[1].pc = "done"
    /\ calls[2].pc = "dispatching"
    /\ calls[2].tool = "ab_open"
    /\ calls[2].session = 1
    /\ browsers[1].closeCalls = 0

\* C5: close on an unregistered name returns {error: "Session not found"}
\* as a payload, dispatches nothing, tears nothing down, launches nothing
\* and leaves the registry unchanged.
C5_CloseUnknown ==
    [][\A c \in Calls, n \in Names :
          (Invoked(c, "ab_close", n) /\ n \notin RegisteredNames)
          => /\ calls'[c].pc = "done"
             /\ returned'.tool = "ab_close" /\ returned'.name = n
             /\ returned'.result = "Session not found"
             /\ returned'.error = <<>> /\ returned'.sent.action = "none"
             /\ browsers' = browsers
             /\ sessions' = sessions
             /\ objs' = objs]_vars

\* C5 witness: a close call has returned the "Session not found" payload.
C5_Witness ==
    /\ returned.tool = "ab_close"
    /\ returned.result = "Session not found"
    /\ returned.name \notin RegisteredNames

\* C6: when close completes with {closed: true} the name is absent from the
\* registry, and a resolve of an absent name (below the cap) launches a
\* fresh engine handle: one more launch, a handle no earlier call got.
C6_CloseThenFreshLaunch ==
    [][/\ \A c \in Calls : ClosedBy(c) => calls[c].name \notin RegisteredNames'
       /\ \A c \in Calls, n \in Names :
             (Invoked(c, "ab_open", n) /\ n \notin RegisteredNames
                /\ Len(sessions) < ConfiguredCap)
             => /\ Len(browsers') = Len(browsers) + 1
                /\ calls'[c].pc = "launching"
                /\ calls'[c].session = Len(browsers')
                /\ \A d \in Calls : calls[d].session # calls'[c].session]_vars

\* C6 witness: with no reaper eviction and no shutdown possible, a session
\* opened with engine 1..3 was closed and its name is registered again with
\* the fourth engine.
C6_Witness ==
    /\ DOMAIN pluginConfig = {}
    /\ stopPc = "running"
    /\ Len(browsers) = 4
    /\ \E i \in 1..3 :
          /\ browsers[i].closeCalls = 1
          /\ \E j \in 1..Len(sessions) : sessions[j] = [name |-> i, id |-> 4]

\* C7: closing a registered session frees exactly one slot: a new name is
\* rejected while the registry is full, the completing close takes exactly
\* its own entry out, and a new name is admitted once the registry is one
\* below the cap.
C7_CloseFreesOneSlot ==
    [][/\ \A c \in Calls :
             ClosedBy(c)
             => Len(sessions') =
                   IF calls[c].name \in RegisteredNames
                   THEN Len(sessions) - 1 ELSE Len(sessions)
       /\ \A c \in Calls, n \in Names :
             (Invoked(c, "ab_open", n) /\ n \notin RegisteredNames)
             => IF Len(sessions) >= ConfiguredCap
                THEN calls'[c].pc = "done" /\ Len(returned'.error) = 3
                ELSE calls'[c].pc = "launching"]_vars

\* C7 witness: maxConcurrent = 2, the registry was full with sessions 1 and
\* 2; session 1 was closed and a new session was then created.
C7_Witness ==
    /\ "maxConcurrent" \in DOMAIN pluginConfig
    /\ pluginConfig.maxConcurrent = 2
    /\ stopPc = "running"
    /\ Len(browsers) = 3
    /\ browsers[1].closeCalls = 1
    /\ sessions = <<[name |-> 2, id |-> 2], [name |-> 1, id |-> 3]>>

\* C8: once close has dispatched its teardown, the call never ends with the
\* name still registered, whether the teardown succeeded or failed.
C8_CloseAlwaysRemoves ==
    [][\A c \in Calls :
          (calls[c].pc = "closing" /\ calls'[c].pc = "done")
          => calls[c].name \notin RegisteredNames']_vars

\* C9: every engine handle is torn down at most once.
C9_TeardownAtMostOnce ==
    \A id \in 1..Len(browsers) : browsers[id].closeCalls <= 1

\* C10: no envelope is dispatched to an engine handle whose teardown has
\* been invoked.
C10_NoDispatchAfterTeardown ==
    [][\A c \in Calls :
          (calls[c].pc = "resolved" /\ calls'[c].pc = "dispatching")
          => browsers[calls[c].session].closeCalls = 0]_vars

----------------------------------------------------------------------------
(* C11..C15: dispatches in flight, the reaper, the stop hook, launch failure *)

\* the registered SessionState objects (by the index of their browser)
RegisteredIds == { sessions[i].id : i \in 1..Len(sessions) }

\* call c has an envelope in flight on its session's browser
InFlight(c) == calls[c].pc \in {"dispatching", "closing", "starting", "stopping"}

\* C11: at most one dispatched envelope is in flight per engine handle: two
\* concurrent tool calls on the same session never overlap their dispatches.
C11_OneDispatchPerHandle ==
    \A c, d \in Calls :
        (c # d /\ InFlight(c) /\ InFlight(d))
            => calls[c].session # calls[d].session

\* C12: a run of the idle reaper never removes nor tears down a session on
\* which a tool call is in flight, however long the operation lasts.
C12_ReaperSparesInFlight ==
    [][ReaperTick =>
          \A c \in Calls :
             (calls[c].pc = "dispatching" /\ calls[c].session \in RegisteredIds)
             => /\ calls[c].session \in RegisteredIds'
                /\ browsers'[calls[c].session] = browsers[calls[c].session]]_vars

\* C13: a reaper run at time now removes and tears down, once each, exactly
\* the registered sessions with now - lastActivity > idleTimeoutMs (300000
\* when not configured); every other registered session stays registered
\* with its lastActivity, recording state and engine handle unchanged.
C13_ReaperRemovesExactlyIdle ==
    [][ReaperTick =>
          /\ Len(browsers') = Len(browsers)
          /\ \A i \in 1..Len(sessions) :
                LET e == sessions[i]
                    timeout == IF "idleTimeoutMs" \in DOMAIN pluginConfig
                               THEN pluginConfig.idleTimeoutMs ELSE 300000
                IN IF now - objs[e.id].lastActivity > timeout
                   THEN /\ e.name \notin RegisteredNames'
                        /\ browsers'[e.id].closeCalls = browsers[e.id].closeCalls + 1
                   ELSE /\ \E j \in 1..Len(sessions') : sessions'[j] = e
                        /\ objs'[e.id] = objs[e.id]
                        /\ browsers'[e.id] = browsers[e.id]
          /\ \A id \in 1..Len(browsers) :
                id \notin RegisteredIds => browsers'[id] = browsers[id]]_vars

\* C13 witness: no idleTimeoutMs configured; sessions 2 and 3, untouched
\* since 0, were reaped by the run at 360000, and session 1, used at
\* 300000, is still registered.
C13_Witness ==
    /\ DOMAIN pluginConfig = {}
    /\ now = 360000
    /\ sessions = <<[name |-> 1, id |-> 1]>>
    /\ objs[1].lastActivity = 300000
    /\ browsers[1].closeCalls = 0
    /\ browsers[2].closeCalls = 1
    /\ browsers[3].closeCalls = 1
    /\ calls[2].pc = "idle"
    /\ stopPc = "running"

\* C14: when the stop hook completes the registry is empty and teardown has
\* been invoked on every session the hook takes out of the registry,
\* whether the teardowns succeeded or failed.
C14_StopDrainsAll ==
    [][(stopPc # "stopped" /\ stopPc' = "stopped")
          => /\ sessions' = <<>>
             /\ \A i \in 1..Len(sessions) :
                   browsers'[sessions[i].id].closeCalls >= 1]_vars

\* C15: when the engine launch fails during creation, the call is rejected
\* with the launch error, nothing is registered and no slot is consumed
\* (registry, session objects and handles are as before the failure), and
\* a resolve of an unregistered name is admitted exactly when the registry
\* is below the cap, so the same name can be created by a later call.
C15_LaunchFailureLeavesNoTrace ==
    [][/\ \A c \in Calls :
             (calls[c].pc = "launching" /\ calls'[c].pc = "done")
             => /\ returned'.tool = calls[c].tool
                /\ returned'.name = calls[c].name
                /\ returned'.result = "none" /\ returned'.data = <<>>
                /\ returned'.error = <<"launch failed">>
                /\ sessions' = sessions
                /\ objs' = objs
                /\ browsers' = browsers
       /\ \A c \in Calls, n \in Names :
             (Invoked(c, "ab_open", n) /\ n \notin RegisteredNames)
             => (calls'[c].pc = "launching" <=> Len(sessions) < ConfiguredCap)]_vars

\* C15 witness: a launch has just failed, the name is not registered and
\* the registry is below the cap.
C15_Witness ==
    /\ returned.error = <<"launch failed">>
    /\ returned.name \notin RegisteredNames
    /\ Len(sessions) < ConfiguredCap
    /\ \A c \in Calls : calls[c].pc \in {"idle", "done"}

----------------------------------------------------------------------------
(* C16..C20: the recording state of a session *)

\* This step resumes call c of the given tool after `await getSession(...)`.
Resumed(c, tool) ==
    /\ calls[c].pc = "resolved"
    /\ calls[c].tool = tool
    /\ calls'[c].pc # "resolved"

\* The step leaves every session object it keeps as it was.
SessionObjectsKept == \A id \in DOMAIN objs' : objs'[id] = objs[id]

\* C16: record-start on a session that is Recording returns the payload
\* {error: "Already recording"}, dispatches no recording_start and leaves
\* the recording state and the artifact path unchanged.
C16_AlreadyRecording ==
    [][\A c \in Calls :
          (Resumed(c, "ab_record_start") /\ objs[calls[c].session].recording)
          => /\ calls'[c].pc = "done"
             /\ returned'.tool = "ab_record_start"
             /\ returned'.name = calls[c].name
             /\ returned'.result = "Already recording"
             /\ returned'.error = <<>> /\ returned'.sent.action = "none"
             /\ browsers' = browsers
             /\ sessions' = sessions
             /\ SessionObjectsKept]_vars

\* C16 witness: record-start has just answered "Already recording" on a
\* registered session that is recording and has received one
\* recording_start.
C16_Witness ==
    /\ returned.tool = "ab_record_start"
    /\ returned.result = "Already recording"
    /\ \E i \in 1..Len(sessions) :
          /\ sessions[i].name = returned.name
          /\ objs[sessions[i].id].recording
          /\ objs[sessions[i].id].recordingPath = <<returned.name, "clip", 0, "webm">>
          /\ browsers[sessions[i].id].recLog = <<"recording_start">>

\* C17: record-stop on a session that is Idle, the session this very call
\* created included, returns the payload {error: "Not recording"},
\* dispatches no recording_stop, runs no conversion and no upload, and
\* leaves the session Idle.
C17_NotRecording ==
    [][\A c \in Calls :
          (Resumed(c, "ab_record_stop") /\ ~objs[calls[c].session].recording)
          => /\ calls'[c].pc = "done"
             /\ returned'.tool = "ab_record_stop"
             /\ returned'.name = calls[c].name
             /\ returned'.result = "Not recording" /\ returned'.data = <<>>
             /\ returned'.error = <<>> /\ returned'.sent.action = "none"
             /\ browsers' = browsers
             /\ sessions' = sessions
             /\ SessionObjectsKept]_vars

\* C17 witness: maxConcurrent = 2 and the only call made so far, a
\* record-stop, created the only session and answered "Not recording".
C17_Witness ==
    /\ pluginConfig.maxConcurrent = 2
    /\ calls[2].pc = "idle"
    /\ returned.tool = "ab_record_stop" /\ returned.name = 1
    /\ returned.result = "Not recording" /\ returned.error = <<>>
    /\ sessions = <<[name |-> 1, id |-> 1]>>
    /\ ~objs[1].recording
    /\ browsers[1].recLog = <<>>

\* the recording envelopes dispatched by this step, per engine handle
RecDispatched(id) ==
    IF browsers'[id].recLog = browsers[id].recLog THEN <<>>
    ELSE SubSeq(browsers'[id].recLog, Len(browsers[id].recLog) + 1,
                Len(browsers'[id].recLog))

\* C18: on an Idle session record-start dispatches exactly one
\* recording_start and, once it is answered, the session is Recording; on
\* a Recording session record-stop dispatches exactly one recording_stop
\* and, once it is answered, the session is Idle again, so that a later
\* record-start is accepted; no other step dispatches a recording envelope.
C18_StartThenStop ==
    [][/\ \A c \in Calls :
             LET id == calls[c].session IN
             /\ (Resumed(c, "ab_record_start") /\ ~objs[id].recording)
                   => /\ calls'[c].pc = "starting"
                      /\ RecDispatched(id) = <<"recording_start">>
             /\ (Resumed(c, "ab_record_stop") /\ objs[id].recording)
                   => /\ calls'[c].pc = "stopping"
                      /\ RecDispatched(id) = <<"recording_stop">>
             /\ (calls[c].pc = "starting" /\ calls'[c].pc = "done"
                    /\ returned'.error = <<>> /\ id \in DOMAIN objs')
                   => objs'[id].recording
             /\ (calls[c].pc = "stopping"
                    /\ calls'[c].pc \in {"converting", "uploading"}
                    /\ id \in DOMAIN objs')
                   => ~objs'[id].recording
       /\ \A id \in 1..Len(browsers) :
             RecDispatched(id) # <<>>
             => \E c \in Calls :
                   /\ calls[c].session = id
                   /\ Resumed(c, "ab_record_start") \/ Resumed(c, "ab_record_stop")]_vars

\* C18 witness: a registered session received recording_start, then
\* recording_stop, then recording_start again, and is Recording.
C18_Witness ==
    \E i \in 1..Len(sessions) :
       /\ browsers[sessions[i].id].recLog =
             <<"recording_start", "recording_stop", "recording_start">>
       /\ objs[sessions[i].id].recording

\* C19: under any interleaving of record-start and record-stop calls on
\* one session, the recording envelopes its engine handle was sent
\* alternate strictly, starting with recording_start.
C19_RecordingAlternates ==
    \A id \in 1..Len(browsers) :
       \A i \in 1..Len(browsers[id].recLog) :
          browsers[id].recLog[i] =
             IF i % 2 = 1 THEN "recording_start" ELSE "recording_stop"

\* C20: every registered session has a recordingPath exactly when its
\* recording flag is set; in particular it has none once record-stop has
\* brought it back to Idle.
C20_PathIffRecording ==
    \A i \in 1..Len(sessions) :
       ("recordingPath" \in DOMAIN objs[sessions[i].id])
          <=> objs[sessions[i].id].recording

----------------------------------------------------------------------------
(* C21..C30: media post-processing, envelopes, destruction paths *)

\* call c holds a video that GIF conversion, enabled, failed to convert
ConversionFailed(cs, c) ==
    /\ "gif" \in DOMAIN pluginConfig /\ pluginConfig.gif.enabled
    /\ cs[c].path # <<>>
    /\ cs[c].ctype = "video/webm"

\* C21: when GIF conversion is enabled and fails, record-stop goes on to
\* upload the original artifact as video/webm with the session Idle, and
\* the call returns (it does not reject) a result whose localPath is the
\* original artifact.
C21_GifFailureFallsBack ==
    [][\A c \in Calls :
          /\ (calls[c].pc = "converting" /\ calls'[c].pc = "uploading"
                 /\ ConversionFailed(calls', c))
             => /\ calls'[c].path = calls[c].path
                /\ calls'[c].path[4] = "webm"
                /\ \A i \in 1..Len(sessions') :
                      sessions'[i].name = calls[c].name
                         => ~objs'[sessions'[i].id].recording
          /\ (calls[c].pc = "uploading" /\ calls[c].tool = "ab_record_stop"
                 /\ ConversionFailed(calls, c) /\ calls'[c].pc = "done")
             => /\ returned'.error = <<>>
                /\ returned'.data # <<>>
                /\ returned'.data.localPath = calls[c].path]_vars

\* C22: a failure of the upload (reading the file or storing it) never
\* fails ab_screenshot or ab_record_stop: the call whose upload settles
\* completes without error and returns the local path it captured.
C22_UploadFailureIsSoft ==
    [][\A c \in Calls :
          (calls[c].pc = "uploading" /\ calls'[c].pc = "done")
             => /\ returned'.error = NoError
                /\ returned'.data # NoData
                /\ returned'.data.localPath = calls[c].path]_vars

\* C23: for every tool that dispatches, an engine result with
\* success=false is propagated to the caller: the step the engine resumes
\* with such a result completes the call with that failed result.
C23_EngineFailurePropagated ==
    [][returned'.engine = "failed" => returned'.result = "failed"]_vars

\* the call c takes a step
Steps(c) == calls'[c] # calls[c]

\* the step dispatches nothing
SendsNothing == returned'.sent = NoDispatch /\ returned'.to = 0

\* C24: ab_screenshot with a device dispatches the device envelope with
\* that device name and, when the engine has answered it, the screenshot
\* envelope, both to the browser of its session, and nothing else;
\* without a device it dispatches the screenshot envelope only.
C24_DeviceThenScreenshot ==
    [][\A c \in Calls :
          /\ (Steps(c) /\ calls[c].pc = "resolved" /\ calls[c].tool = "ab_screenshot")
                => /\ returned'.to = calls[c].session
                   /\ IF "device" \in DOMAIN returned'.params
                            /\ returned'.params.device # ""
                      THEN /\ returned'.sent.action = "device"
                           /\ returned'.sent.device = returned'.params.device
                           /\ calls'[c].pc = "emulating"
                      ELSE /\ returned'.sent.action = "screenshot"
                           /\ calls'[c].pc = "capturing"
          /\ (Steps(c) /\ calls[c].pc = "emulating")
                => \/ /\ returned'.engine = "threw"
                      /\ SendsNothing
                      /\ calls'[c].pc = "done"
                   \/ /\ returned'.sent.action = "screenshot"
                      /\ returned'.to = calls[c].session
                      /\ calls'[c].pc = "capturing"
          /\ (Steps(c) /\ calls[c].pc \in {"capturing", "uploading"})
                => /\ SendsNothing
                   /\ calls'[c].pc \in {"uploading", "done"}
                   /\ calls[c].pc = "uploading" => calls'[c].pc = "done"]_vars

\* the screenshot envelope was dispatched on the engine's answer to the
\* device envelope
C24_Witness ==
    /\ returned.tool = "ab_screenshot"
    /\ returned.sent.action = "screenshot"
    /\ returned.engine \in {"ok", "failed"}
    /\ returned.to # 0

\* C25: ab_advanced without an action returns the catalog and does
\* nothing else: it dispatches no envelope, resolves and creates no
\* session (the registry, the session objects with their lastActivity and
\* the browsers stay as they are) and leaves every other call alone.
C25_CatalogOnly ==
    [][(returned'.tool = "ab_advanced" /\ returned'.result = "catalog")
          => /\ SendsNothing
             /\ returned'.error = NoError
             /\ sessions' = sessions
             /\ objs' = objs
             /\ browsers' = browsers
             /\ \E c \in Calls :
                   /\ calls[c].pc = "idle"
                   /\ calls' = [calls EXCEPT ![c] = DoneCall]]_vars

\* the catalog was returned for a name that is not registered, while
\* another session is
C25_Witness ==
    /\ returned.tool = "ab_advanced"
    /\ returned.result = "catalog"
    /\ sessions # <<>>
    /\ SessionsGet(sessions, returned.name) = 0

\* the step returns nothing to the host
ReturnsNothing ==
    returned'.result = "none" /\ returned'.data = NoData /\ returned'.error = NoError

\* C26: ab_screenshot, ab_interact and ab_advanced with an action resolve
\* the session before any dispatch: an envelope is dispatched only by a
\* call that holds the session it resolved, to that session's browser.
\* A call whose resolution fails is rejected with the error of the failure
\* (from the capacity test, before anything was awaited; from the launch,
\* while launching): it dispatches nothing and returns no result.
C26_ResolvedBeforeDispatch ==
    [][/\ returned'.sent # NoDispatch
          => \E c \in Calls :
                /\ Steps(c)
                /\ calls[c].pc \notin {"idle", "launching"}
                /\ calls[c].session # 0
                /\ calls[c].session \in DOMAIN objs
                /\ returned'.to = calls[c].session
       /\ \A c \in Calls :
             (Steps(c) /\ calls[c].pc \in {"idle", "launching"})
                => /\ SendsNothing
                   /\ \/ calls'[c].pc \in {"launching", "resolved"} /\ ReturnsNothing
                      \/ /\ calls'[c].pc = "done"
                         /\ returned'.result = "catalog"
                         /\ returned'.error = NoError
                      \/ /\ calls'[c].pc = "done"
                         /\ returned'.result = "none"
                         /\ returned'.data = NoData
                         /\ returned'.error =
                               IF calls[c].pc = "idle"
                               THEN CapacityError(pluginConfig) ELSE LaunchError]_vars

\* a screenshot call was rejected with the launch failure while the
\* registry holds another session
C26_Witness ==
    /\ returned.tool = "ab_screenshot"
    /\ returned.error = LaunchError
    /\ sessions # <<>>

\* config.r2 names an account and a bucket
StorageConfigured(cfg) ==
    /\ "r2" \in DOMAIN cfg
    /\ "accountId" \in DOMAIN cfg.r2
    /\ "bucket" \in DOMAIN cfg.r2

\* C27: without a storage destination in the configuration, or with one
\* but without the R2 credentials in the environment (no client is then
\* built), the upload yields no URL and does not fail: ab_screenshot and
\* ab_record_stop return the local path with remoteUrl null and markdown
\* null.
C27_NoStorageNoUrl ==
    [][/\ \A cfg \in ConfigsTools \cup ConfigsRec :
             /\ ~InitR2Client(cfg, FALSE)
             /\ ~StorageConfigured(cfg) => ~InitR2Client(cfg, TRUE)
       /\ ~StorageConfigured(pluginConfig) => ~s3Client
       /\ \A c \in Calls :
             (Steps(c) /\ calls[c].pc = "uploading" /\ ~s3Client)
                => /\ returned'.error = NoError
                   /\ returned'.data =
                         [localPath |-> calls[c].path,
                          remoteUrl |-> <<>>,
                          markdown |-> <<>>]
                   /\ calls[c].path # <<>>]_vars

\* a screenshot returned without URL under a configuration that names a
\* bucket: the credentials were absent
C27_Witness ==
    /\ StorageConfigured(pluginConfig)
    /\ ~s3Client
    /\ returned.tool = "ab_screenshot"
    /\ returned.data # NoData
    /\ returned.data.remoteUrl = <<>>

\* params.params || {}
InnerParams(p) == IF "params" \in DOMAIN p THEN p.params ELSE <<>>

\* C28: the envelope ab_advanced dispatches for an action has that action
\* as its action tag, and beside id and action exactly the entries of
\* params.params, whatever their keys.
C28_AdvancedPassthrough ==
    (returned.tool = "ab_advanced" /\ returned.sent # NoDispatch)
       => /\ returned.sent.action = returned.params.action
          /\ DOMAIN returned.sent =
                {"id", "action"} \cup DOMAIN InnerParams(returned.params)
          /\ \A k \in DOMAIN InnerParams(returned.params) \ {"id", "action"} :
                returned.sent[k] = InnerParams(returned.params)[k]

\* the field of the envelope that carries params.value for an action
ValueField(action) ==
    CASE action = "type" -> {"text"}
      [] action = "press" -> {"key"}
      [] action = "select" -> {"value"}
      [] action = "drag" -> {"target"}
      [] OTHER -> {}

\* a string parameter is supplied: present and not empty
Supplied(p, key) == key \in DOMAIN p /\ p[key] # ""

\* C29: the envelope ab_interact dispatches has the requested action as
\* its action tag; params.value goes to text for type, key for press,
\* value for select, target for drag; for scroll, direction is the value
\* or "down" without one, and amount is the given amount or 300 without
\* one; selector is there exactly when one was supplied.
C29_InteractTranslation ==
    (returned.tool = "ab_interact" /\ returned.sent # NoDispatch)
       => LET p == returned.params
              e == returned.sent
          IN /\ e.action = p.action
             /\ "selector" \in DOMAIN e <=> Supplied(p, "selector")
             /\ "selector" \in DOMAIN e => e.selector = p.selector
             /\ \A f \in ValueField(p.action) :
                   /\ f \in DOMAIN e <=> "value" \in DOMAIN p
                   /\ f \in DOMAIN e => e[f] = p.value
             /\ p.action = "scroll"
                   => /\ {"direction", "amount"} \subseteq DOMAIN e
                      /\ e.direction = IF Supplied(p, "value") THEN p.value ELSE "down"
                      /\ e.amount = IF "amount" \in DOMAIN p THEN p.amount ELSE 300
             /\ DOMAIN e \subseteq
                   {"id", "action", "selector"} \cup ValueField(p.action)
                      \cup (IF p.action = "scroll" THEN {"direction", "amount"} ELSE {})

\* C30: close tool, reaper and drain invoke the teardown of a session's
\* engine handle before they remove the session: whenever a step leaves
\* a registered name unregistered, the teardown of the browser that was
\* registered under it has been invoked.
C30_TeardownBeforeRemoval ==
    [][\A i \in 1..Len(sessions) :
          sessions[i].name \notin { sessions'[j].name : j \in 1..Len(sessions') }
             => browsers'[sessions[i].id].closeCalls >= 1]_vars

----------------------------------------------------------------------------
(* C31..C40: shutdown, recording order, activity, latency, leaks *)

\* This step is a run of the interval callback that reaps: entries leave
\* the registry while no tool call moves and the stop hook stays where it
\* is.
Reaps ==
    /\ calls' = calls
    /\ stopPc' = stopPc
    /\ Len(sessions') < Len(sessions)

\* C31: the reaper is stopped at shutdown before the drain: once the stop
\* hook has been invoked, no run of the interval callback reaps.
C31_NoReapAfterStop ==
    [][stopPc # "running" => ~Reaps]_vars

\* C32: when recording_stop has been answered, ab_record_stop sets the
\* session Idle in the run that goes on to the conversion and the upload,
\* whatever the conversion gives; the run in which the upload settles
\* (URL, null or thrown error) changes no session.
C32_IdleBeforePostProcessing ==
    [][\A c \in Calls :
          /\ (Steps(c) /\ calls[c].pc = "stopping" /\ returned'.engine # "threw")
                => /\ calls'[c].pc \in {"converting", "uploading"}
                   /\ calls[c].session \in DOMAIN objs'
                         => ~objs'[calls[c].session].recording
          /\ (Steps(c) /\ calls[c].pc = "converting")
                => /\ calls'[c].pc = "uploading"
                   /\ objs' = objs
                   /\ sessions' = sessions
          /\ (Steps(c) /\ calls[c].pc = "uploading" /\ calls[c].tool = "ab_record_stop")
                => /\ objs' = objs
                   /\ sessions' = sessions]_vars

\* the upload of a stopped recording threw and the session, still
\* registered, is Idle after recording_stop
C32_Witness ==
    /\ returned.tool = "ab_record_stop"
    /\ returned.error = UploadError
    /\ \E i \in 1..Len(sessions) :
          /\ ~objs[sessions[i].id].recording
          /\ sessions[i].name = returned.name
          /\ Len(browsers[sessions[i].id].recLog) > 0
          /\ browsers[sessions[i].id].recLog[Len(browsers[sessions[i].id].recLog)]
                = "recording_stop"

\* the session object id is Recording after the step and was not before
BecomesRecording(id) ==
    /\ objs'[id].recording
    /\ id \in DOMAIN objs => ~objs[id].recording

\* C33: ab_record_start dispatches recording_start with the path it
\* computed before the session becomes Recording: a call suspends on
\* recording_start only by dispatching that envelope, with its path, to
\* its session's browser; a session becomes Recording only when such a
\* call is answered, and stores that call's path; a Recording session's
\* browser has received a recording_start.
C33_DispatchBeforeRecording ==
    [][/\ \A c \in Calls :
             (Steps(c) /\ calls'[c].pc = "starting")
                => /\ returned'.sent.action = "recording_start"
                   /\ returned'.sent.path = calls'[c].path
                   /\ returned'.to = calls'[c].session
                   /\ RecDispatched(calls'[c].session) = <<"recording_start">>
       /\ \A id \in DOMAIN objs' :
             /\ BecomesRecording(id)
                   => \E c \in Calls :
                         /\ Steps(c)
                         /\ calls[c].pc = "starting"
                         /\ calls[c].session = id
                         /\ "recordingPath" \in DOMAIN objs'[id]
                         /\ objs'[id].recordingPath = calls[c].path
             /\ objs'[id].recording
                   => \E k \in 1..Len(browsers'[id].recLog) :
                         browsers'[id].recLog[k] = "recording_start"]_vars

\* a session opened by ab_record_start is Recording with the path of the
\* one recording_start its browser received
C33_Witness ==
    \E i \in 1..Len(sessions) :
       /\ returned.tool = "ab_record_start"
       /\ returned.result = "recording"
       /\ returned.name = sessions[i].name
       /\ objs[sessions[i].id].recording
       /\ objs[sessions[i].id].recordingPath[1] = sessions[i].name
       /\ objs[sessions[i].id].lastActivity = now
       /\ browsers[sessions[i].id].recLog = <<"recording_start">>

\* the lastActivity of the session registered under name n in (s, o)
ActivityOf(s, o, n) == o[SessionsGet(s, n)].lastActivity

\* C34: while a name stays registered the lastActivity of its session
\* never decreases, and every resolve (a call leaving getSession with its
\* session) sets the lastActivity of that session to the time of the
\* resolve.
C34_ActivityMonotonic ==
    [][/\ \A n \in Names :
             (SessionsHas(sessions, n) /\ SessionsHas(sessions', n))
                => ActivityOf(sessions', objs', n) >= ActivityOf(sessions, objs, n)
       /\ \A c \in Calls :
             (calls[c].pc \in {"idle", "launching"} /\ calls'[c].pc = "resolved")
                => /\ objs'[calls'[c].session].lastActivity = now
                   /\ SessionsGet(sessions', calls'[c].name) = calls'[c].session]_vars

\* a registered session opened at time 0 was resolved again after the
\* clock moved
C34_Witness ==
    \E c \in Calls :
       /\ calls[c].pc = "resolved"
       /\ now > 0
       /\ calls[c].session \in DOMAIN objs
       /\ objs[calls[c].session].lastActivity = now
       /\ sessions = Opened(Len(sessions))
       /\ calls[c].session <= Len(sessions)

\* idleTimeoutMs ?? 300000
ConfiguredTimeout ==
    IF "idleTimeoutMs" \in DOMAIN pluginConfig
    THEN pluginConfig.idleTimeoutMs ELSE 300000

\* name n is registered and the first timer firing that follows the
\* crossing of its idle threshold is within the observation
Overdue(n) ==
    /\ SessionsHas(sessions, n)
    /\ ActivityOf(sessions, objs, n) + ConfiguredTimeout + 60000
          <= ConfiguredTimeout - 60000 + MaxTicks * 60000

\* C35: a session left alone is removed and torn down by the reaper at
\* the first timer firing after its idle time exceeds idleTimeoutMs: at
\* every firing no registered session is left with an idle time above the
\* timeout, the entries a firing removes have their teardown invoked, and
\* a registered name whose threshold is crossed within the observation is
\* eventually removed or used again.
C35_ReapedWithinOneScan ==
    /\ [](\A i \in 1..Len(sessions) :
            now - objs[sessions[i].id].lastActivity <= ConfiguredTimeout)
    /\ [][now' # now
            => \A i \in 1..Len(sessions) :
                  sessions[i].name \notin { sessions'[j].name : j \in 1..Len(sessions') }
                     => /\ now' - objs[sessions[i].id].lastActivity > ConfiguredTimeout
                        /\ browsers'[sessions[i].id].closeCalls
                              = browsers[sessions[i].id].closeCalls + 1]_vars
    /\ \A n \in Names : Overdue(n) ~> ~Overdue(n)

\* the session opened at 0 and left alone was torn down by the firing
\* one scan interval after its idle time reached the timeout, while a
\* session used since is still registered
C35_Witness ==
    /\ now = ConfiguredTimeout + 60000
    /\ sessions # <<>>
    /\ \E id \in 1..Len(browsers) :
          /\ id \notin RegisteredIds
          /\ browsers[id].closeCalls = 1

\* the call is suspended on an await or inside execSync
Suspended(c) ==
    calls[c].pc \in {"launching", "starting", "stopping", "converting",
                     "uploading", "closing"}

\* the call has a continuation that the event loop can run
Resumable(d) ==
    calls[d].pc \in {"launching", "resolved", "starting", "stopping",
                     "uploading", "closing"}

\* the event loop runs the continuation of call d
Continues(d) ==
    \/ LaunchOk(d) \/ LaunchFail(d)
    \/ RecordStartCheck(d) \/ RecordStartReturn(d)
    \/ RecordStopCheck(d) \/ RecordStopReturn(d)
    \/ UploadReturn(d) \/ CloseReturn(d)

\* the host may invoke call d on the name n
HostMayInvoke(d, n) ==
    /\ reaperOn
    /\ stopPc = "running"
    /\ calls[d].pc = "idle"
    /\ \A e \in Calls : e < d => calls[e].pc # "idle"
    /\ CanName(n)

\* C36: while a call on one session is suspended (on the engine launch, a
\* dispatch, the transcoding or the upload), a call on a different session
\* name can still take its next step, and a tool call on a different
\* registered name can still be invoked and resolve its session.
C36_OtherSessionsNotBlocked ==
    \A c \in Calls : \A d \in Calls \ {c} :
       Suspended(c)
          => /\ (Resumable(d) /\ calls[d].name # calls[c].name)
                   => ENABLED Continues(d)
             /\ \A n \in Names \ {calls[c].name} :
                   (HostMayInvoke(d, n) /\ ~NeedsCreate(sessions, n))
                      => ENABLED (\E t \in RecordTools : GetSessionExisting(d, t, n))

\* the engine handles held by the entries of a registry
RegisteredHandles(s) == { s[i].id : i \in 1..Len(s) }

\* C37: no engine handle is leaked: a launched handle is registered by the
\* creation that launched it, under a name that had no entry, and a handle
\* leaves the registry only torn down (browser.close() or the close
\* envelope has been invoked on it).
C37_NoHandleLeaked ==
    [][/\ \A id \in RegisteredHandles(sessions) \ RegisteredHandles(sessions') :
             browsers'[id].closeCalls > 0
       /\ \A c \in Calls :
             (calls[c].pc = "launching" /\ calls'[c].pc = "resolved")
                => /\ NeedsCreate(sessions, calls[c].name)
                   /\ calls[c].session \in RegisteredHandles(sessions')]_vars

\* C38: the cap applies to creation only: with the registry full, a tool
\* call on a registered name resolves the registered session, sets its
\* lastActivity to the time of the call, fails with no error and launches
\* nothing; the resolved call then dispatches its envelope.
C38_CapOnlyOnCreation ==
    [][\A c \in Calls :
          /\ \A n \in RegisteredNames :
                (Invoked(c, "ab_open", n) /\ Len(sessions) >= ConfiguredCap)
                   => /\ calls'[c].pc = "resolved"
                      /\ calls'[c].session = SessionsGet(sessions, n)
                      /\ ActivityOf(sessions', objs', n) = now
                      /\ returned'.error = NoError
                      /\ Len(sessions') = Len(sessions)
          /\ (Steps(c) /\ calls[c].pc = "resolved")
                => calls'[c].pc = "dispatching"]_vars

\* with the registry full, a call on a registered name opened at time 0
\* was resolved at a later time and has dispatched
C38_Witness ==
    \E c \in Calls :
       /\ Len(sessions) >= ConfiguredCap
       /\ calls[c].pc = "dispatching"
       /\ SessionsGet(sessions, calls[c].name) = calls[c].session
       /\ now > 0
       /\ objs[calls[c].session].lastActivity = now
       /\ calls[c].session <= ConfiguredCap
       /\ Len(browsers) = ConfiguredCap

\* C39: once the stop hook has completed the registry stays empty: no
\* creation that was suspended on the engine launch when the drain ran
\* registers its session afterwards.
C39_EmptyAfterStop ==
    /\ stopPc = "stopped" => sessions = <<>>
    /\ \A c \in Calls :
          (stopPc = "stopped" /\ calls[c].pc \in {"resolved", "dispatching"})
             => browsers[calls[c].session].closeCalls > 0

\* C40: when the recording_start dispatch throws, the record-start call
\* is rejected with what was thrown and the session is left as it was
\* (its recording flag and artifact path unchanged); a record-start that
\* resumes on a session that is not recording is never answered
\* "Already recording".
C40_FailedStartLeavesIdle ==
    [][\A c \in Calls :
          /\ (Steps(c) /\ calls[c].pc = "starting" /\ returned'.engine = "threw")
                => /\ calls'[c].pc = "done"
                   /\ returned'.error = DispatchError
                   /\ returned'.result = "none"
                   /\ sessions' = sessions
                   /\ browsers' = browsers
                   /\ calls[c].session \in DOMAIN objs'
                         => objs'[calls[c].session] = objs[calls[c].session]
          /\ (Resumed(c, "ab_record_start") /\ ~objs[calls[c].session].recording)
                => returned'.result # "Already recording"]_vars

\* a record-start has just been rejected by a throwing dispatch and its
\* session, registered, is Idle with no artifact path, its engine having
\* received the recording_start
C40_Witness ==
    /\ returned.tool = "ab_record_start"
    /\ returned.error = DispatchError
    /\ \E i \in 1..Len(sessions) :
          /\ sessions[i].name = returned.name
          /\ ~objs[sessions[i].id].recording
          /\ "recordingPath" \notin DOMAIN objs[sessions[i].id]
          /\ browsers[sessions[i].id].recLog = <<"recording_start">>

====
